---- MODULE Spec2Model ----
(***************************************************************************)
(* A model of manimlib's SVG geometry compiler                             *)
(* (src/manimlib/mobject/svg/svg_mobject.py).                              *)
(*                                                                         *)
(*   SpecPath   one VMobjectFromSVGPathstring.init_points run on an empty  *)
(*              cache directory, over every well-formed path string of the *)
(*              bounded input domain (PathStrings(MaxArgs)).               *)
(*   SpecCache  repeated init_points runs of one path string, with the     *)
(*              rendering layer writing the _tris file and cache I/O that  *)
(*              may fail.                                                  *)
(*   SpecWalk   SVGMobject.init_points / get_mobjects_from /               *)
(*              use_to_mobjects over bounded documents.                    *)
(*                                                                         *)
(* A path string is modelled after tokenisation: the sequence of           *)
(* (command letter, numbers) pairs that get_commands_and_coord_strings and *)
(* string_to_numbers hand to string_to_points.  A point is <<x, y>>; the   *)
(* third numpy coordinate is always 0 and is left out.                     *)
(***************************************************************************)
EXTENDS Integers, Sequences, FiniteSets, TLC

VARIABLES
    path_string,     \* self.path_string, tokenised
    config,          \* CONFIG flag should_remove_null_curves of the request
    pc,              \* position inside init_points
    idx,             \* index of the next (command, coord_string) pair
    command,         \* handle_command's argument `command`
    new_points,      \* handle_command's argument `new_points`
    relative_point,  \* self.relative_point
    points,          \* the geometry built so far (self.points)
    points_file,     \* {hash}_points.npy: whether it exists, and its content
    tris_file,       \* whether {hash}_tris.npy exists
    runs_left,       \* init_points runs the behaviour may still start
    result,          \* outcome of the last finished init_points run
    prev,            \* outcome of the run before that
    doc,             \* the parsed SVG document (minidom), one record per element
    svg_index,       \* position of init_points in getElementsByTagName("svg")
    stack,           \* the active get_mobjects_from calls, innermost last
    def_map,         \* self.def_map: id -> (style, element)
    submobjects,     \* the mobjects init_points has added to the SVGMobject
    warnings,        \* ids reported by warnings.warn
    walk_pc,         \* position of SVGMobject.init_points
    depth,           \* nesting depth of the running handle_command call
    element,         \* the element handed to a shape handler / handle_transforms
    inherited_style, \* the style handed down by the element's ancestors
    mobject,         \* the mobject the handler builds for the element
    shape_pc,        \* position inside get_mobjects_from for that element
    op_index,        \* index of the next entry of the transform attribute
    font,            \* register_font's argument and the files that exist
    font_pc,         \* position inside register_font and the with statement
    pango,           \* manimpango's calls so far and the registered fonts
    image,           \* the ImageMobject: pixel size and corners
    sample,          \* point_to_rgb's argument
    rgb,             \* outcome of the point_to_rgb call
    rect_style,      \* the BackgroundRectangle's style data
    rect_call,       \* the arguments of its last set_style_data call
    rect_calls_left  \* set_style_data calls the behaviour may still make

path_vars == <<path_string, config, pc, idx, command, new_points,
               relative_point, points, points_file, tris_file,
               runs_left, result, prev, depth>>

walk_vars == <<doc, svg_index, stack, def_map, submobjects, warnings, walk_pc>>

shape_vars == <<element, inherited_style, mobject, shape_pc, op_index>>

font_vars == <<font, font_pc, pango>>

image_vars == <<image, sample, rgb>>

rect_vars == <<rect_style, rect_call, rect_calls_left>>

ext_vars == <<shape_vars, font_vars, image_vars, rect_vars>>

vars == <<path_vars, walk_vars, ext_vars>>

-----------------------------------------------------------------------------
(* Bounds of the input domain *)

MaxCoord == 2
MaxCmds == 3
MaxArgs == 3
MaxCompiles == 3
MaxElements == 3
MaxDepth == 8

ORIGIN == <<0, 0>>

\* sample coordinate pairs and single-axis values of the inputs
Pts == {<<0, 0>>, <<1, MaxCoord>>, <<MaxCoord, 1>>}
HVals == {1, MaxCoord}

NoFile == [exists |-> FALSE, data |-> <<>>]
Stored(g) == [exists |-> TRUE, data |-> g]
NoCommand == "-"

-----------------------------------------------------------------------------
(* Points *)

Add(p, q) == <<p[1] + q[1], p[2] + q[2]>>
Sub(p, q) == <<p[1] - q[1], p[2] - q[2]>>
AddAll(ps, q) == [k \in DOMAIN ps |-> Add(ps[k], q)]
SubAll(ps, q) == [k \in DOMAIN ps |-> Sub(ps[k], q)]

-----------------------------------------------------------------------------
(* Command letters *)

LowerLetters == {"m", "l", "h", "v", "c", "s", "q", "t", "a", "z"}

islower(c) == c \in LowerLetters

upper(c) ==
    CASE c = "m" -> "M" [] c = "l" -> "L" [] c = "h" -> "H"
      [] c = "v" -> "V" [] c = "c" -> "C" [] c = "s" -> "S"
      [] c = "q" -> "Q" [] c = "t" -> "T" [] c = "a" -> "A"
      [] c = "z" -> "Z" [] OTHER -> c

\* get_command_to_function_map: letter -> (VMobject function, n_points)
get_command_to_function_map ==
    [M |-> [func |-> "start_new_path", n_points |-> 1],
     L |-> [func |-> "add_line_to", n_points |-> 1],
     H |-> [func |-> "add_line_to", n_points |-> 1],
     V |-> [func |-> "add_line_to", n_points |-> 1],
     C |-> [func |-> "add_cubic_bezier_curve_to", n_points |-> 3],
     S |-> [func |-> "add_smooth_cubic_curve_to", n_points |-> 2],
     Q |-> [func |-> "add_quadratic_bezier_curve_to", n_points |-> 2],
     T |-> [func |-> "add_smooth_curve_to", n_points |-> 1],
     A |-> [func |-> "add_quadratic_bezier_curve_to", n_points |-> 2],
     Z |-> [func |-> "close_path", n_points |-> 0]]

command_to_function(c) == get_command_to_function_map[upper(c)]

-----------------------------------------------------------------------------
(* Geometry: a sequence of subpaths, each a start point, the segments       *)
(* drawn from it (kind and the points handed to the drawing function, the   *)
(* last of which is the segment's end point) and an explicit closed flag.   *)

EmptyGeometry == <<>>

get_last_point(g) ==
    LET sp == g[Len(g)]
    IN  IF sp.segs = <<>> THEN sp.start
        ELSE LET sg == sp.segs[Len(sp.segs)] IN sg.pts[Len(sg.pts)]

start_new_path(g, p) ==
    Append(g, [start |-> p, segs |-> <<>>, closed |-> FALSE])

add_segment(g, kind, ps) ==
    [g EXCEPT ![Len(g)].segs = Append(@, [kind |-> kind, pts |-> ps])]

add_line_to(g, p) == add_segment(g, "line", <<p>>)

close_path(g) ==
    LET sp == g[Len(g)]
        g1 == IF get_last_point(g) = sp.start THEN g
              ELSE add_line_to(g, sp.start)
    IN  [g1 EXCEPT ![Len(g1)].closed = TRUE]

\* func(*new_points[:n_points]) for the function the command maps to
call_function(g, func, args) ==
    CASE func = "start_new_path" -> start_new_path(g, args[1])
      [] func = "add_line_to" -> add_line_to(g, args[1])
      [] func = "close_path" -> close_path(g)
      [] func = "add_cubic_bezier_curve_to" -> add_segment(g, "cubic", args)
      [] func = "add_smooth_cubic_curve_to" -> add_segment(g, "smooth_cubic", args)
      [] func = "add_quadratic_bezier_curve_to" -> add_segment(g, "quadratic", args)
      [] func = "add_smooth_curve_to" -> add_segment(g, "smooth", args)

\* segment k of subpath sp begins where segment k-1 ended
seg_start(sp, k) ==
    IF k = 1 THEN sp.start
    ELSE LET sg == sp.segs[k - 1] IN sg.pts[Len(sg.pts)]

is_null_curve(sp, k) ==
    \A j \in DOMAIN sp.segs[k].pts : sp.segs[k].pts[j] = seg_start(sp, k)

RECURSIVE keep_curves(_, _)
keep_curves(sp, k) ==
    IF k = 0 THEN <<>>
    ELSE IF is_null_curve(sp, k) THEN keep_curves(sp, k - 1)
         ELSE Append(keep_curves(sp, k - 1), sp.segs[k])

get_points_without_null_curves(g) ==
    [i \in DOMAIN g |-> [g[i] EXCEPT !.segs = keep_curves(g[i], Len(g[i].segs))]]

\* self.stretch(-1, 1, about_point=ORIGIN): negate every y coordinate
flip_point(p) == <<p[1], 0 - p[2]>>

stretch_y_identity(g) == g

stretch_y(g) ==
    [i \in DOMAIN g |->
        [g[i] EXCEPT
            !.start = flip_point(@),
            !.segs = [k \in DOMAIN @ |->
                        [@[k] EXCEPT !.pts = [j \in DOMAIN @ |-> flip_point(@[j])]]]]]

-----------------------------------------------------------------------------
(* string_to_points *)

hv_axis_always_carried(c, rel, i) == rel[i]

hv_axis_never_carried(c, rel, i) == 0

\* the omitted axis i of an H/V point: xy is zero-filled, and only the
\* absolute form overwrites the column with relative_point's coordinate
hv_omitted_axis(c, rel, i) == IF ~islower(c) THEN rel[i] ELSE 0

is_unsupported_upper_only(c) == c = "A"

\* elif command.upper() == "A": raise Exception("Not implemented")
is_unsupported(c) == upper(c) = "A"

string_to_points(c, numbers, rel) ==
    IF upper(c) = "H"
    THEN [k \in 1..Len(numbers) |-> <<numbers[k], hv_omitted_axis(c, rel, 2)>>]
    ELSE IF upper(c) = "V"
    THEN [k \in 1..Len(numbers) |-> <<hv_omitted_axis(c, rel, 1), numbers[k]>>]
    ELSE [k \in 1..(Len(numbers) \div 2) |-> <<numbers[2 * k - 1], numbers[2 * k]>>]

-----------------------------------------------------------------------------
(* handle_command, one invocation *)

\* if command.islower(): new_points += self.relative_point
to_absolute(c, ps, rel) == IF islower(c) THEN AddAll(ps, rel) ELSE ps

\* extra points after a move are handed on as the relative command "l"
leftover_command(c) == IF upper(c) = "M" THEN "l" ELSE c

leftover_relative_point_kept(c, rel, last) == rel

\* self.relative_point handed to the recursive call
leftover_relative_point(c, rel, last) == IF islower(c) THEN last ELSE rel

\* leftover_points -= self.relative_point (the value before it is updated)
leftover_points(c, ps, rel) == IF islower(c) THEN SubAll(ps, rel) ELSE ps

-----------------------------------------------------------------------------
(* The input domain: well-formed path strings.  A path string begins with  *)
(* a move; every command carries whole coordinate tuples (H and V single   *)
(* values), Z and the arc letter are followed by no numbers.               *)

Flat(ps) == [k \in 1..(2 * Len(ps)) |->
                IF k % 2 = 1 THEN ps[(k + 1) \div 2][1] ELSE ps[k \div 2][2]]

PairLetters == {"M", "m", "L", "l"}
AxisLetters == {"H", "h", "V", "v"}
BareLetters == {"Z", "z", "A", "a"}

\* the commands that carry exactly a coordinate tuples (a single values)
CommandsWith(a) ==
    IF a = 0 THEN {[cmd |-> c, numbers |-> <<>>] : c \in BareLetters}
    ELSE {[cmd |-> c, numbers |-> Flat(ps)] :
              c \in PairLetters, ps \in [1..a -> Pts]}
         \cup {[cmd |-> c, numbers |-> ns] :
                  c \in AxisLetters, ns \in [1..a -> HVals]}

RECURSIVE Tails(_, _)
Tails(n, budget) ==
    IF n = 0 THEN {<<>>}
    ELSE {<<>>} \cup
         UNION {{<<c>> \o t : c \in CommandsWith(a), t \in Tails(n - 1, budget - a)} :
                    a \in 0..budget}

Paths(n, budget) ==
    UNION {{<<[cmd |-> c, numbers |-> Flat(ps)]>> \o t :
                c \in {"M", "m"}, ps \in [1..a -> Pts],
                t \in Tails(n - 1, budget - a)} : a \in 1..budget}

\* the strings of at most MaxCmds commands and budget coordinate tuples
PathStrings(budget) == Paths(MaxCmds, budget)

\* the strings whose repeated compilation SpecCache follows
CachedPathStrings == Paths(2, 2)

-----------------------------------------------------------------------------
(* VMobjectFromSVGPathstring.init_points *)

NoResult == [status |-> "none", err |-> "", points |-> EmptyGeometry,
             compiled |-> FALSE, config |-> FALSE]

Raised(e, compiled) ==
    [status |-> "error", err |-> e, points |-> EmptyGeometry,
     compiled |-> compiled, config |-> config]

Returned(g, compiled) ==
    [status |-> "ok", err |-> "", points |-> g,
     compiled |-> compiled, config |-> config]

cache_hit_points_only(points_exists, tris_exists) == points_exists

\* os.path.exists(points_filepath) and os.path.exists(tris_filepath)
cache_hit(points_exists, tris_exists) == points_exists /\ tris_exists

InitPathVars(paths, runs) ==
    /\ path_string \in paths
    /\ config = FALSE
    /\ pc = "idle"
    /\ idx = 0
    /\ command = NoCommand
    /\ new_points = <<>>
    /\ relative_point = ORIGIN
    /\ points = EmptyGeometry
    /\ points_file = NoFile
    /\ tris_file = FALSE
    /\ runs_left = runs
    /\ result = NoResult
    /\ prev = NoResult
    /\ depth = 0

(* The interpreter state of one run of the command loop, as a record, so   *)
(* that the loop is both stepped by the actions below and run to its end   *)
(* by compile.                                                             *)

LoopStart ==
    [pc |-> "commands", idx |-> 1, command |-> NoCommand, new_points |-> <<>>,
     relative_point |-> ORIGIN, points |-> EmptyGeometry, err |-> "",
     depth |-> 0]

LoopRaise(st, e) == [st EXCEPT !.pc = "raised", !.err = e]

\* new_points = self.string_to_points(command, coord_string)
next_command(path, st) ==
    LET c == path[st.idx].cmd
    IN  IF is_unsupported(c)
        THEN LoopRaise(st, "Not implemented")
        ELSE [st EXCEPT !.pc = "handle",
                        !.command = c,
                        !.new_points = string_to_points(c, path[st.idx].numbers,
                                                        st.relative_point)]

\* one invocation of handle_command(command, new_points); the call that
\* would nest deeper than the interpreter's recursion limit raises
handle_command_call(st) ==
    LET f == command_to_function(st.command)
        absolute == to_absolute(st.command, st.new_points, st.relative_point)
    IN  IF st.depth >= MaxDepth
        THEN LoopRaise(st, "RecursionError")
        ELSE IF Len(absolute) < f.n_points
        THEN LoopRaise(st, "TypeError")
        ELSE LET drawn == call_function(st.points, f.func,
                                        SubSeq(absolute, 1, f.n_points))
                 leftover == SubSeq(absolute, f.n_points + 1, Len(absolute))
                 next == leftover_command(st.command)
             IN  IF Len(leftover) > 0
                 THEN [st EXCEPT
                          !.points = drawn,
                          !.command = next,
                          !.depth = st.depth + 1,
                          !.new_points = leftover_points(next, leftover,
                                                         st.relative_point),
                          !.relative_point =
                              leftover_relative_point(next, st.relative_point,
                                                      get_last_point(drawn))]
                 ELSE [st EXCEPT
                          !.points = drawn,
                          !.command = NoCommand,
                          !.depth = 0,
                          !.new_points = <<>>,
                          !.relative_point = get_last_point(drawn),
                          !.idx = st.idx + 1,
                          !.pc = "commands"]

LoopDone(path, st) == st.pc = "commands" /\ st.idx > Len(path)

\* should_remove_null_curves, then the Y flip
post_process(g, cfg) ==
    stretch_y(IF cfg THEN get_points_without_null_curves(g) ELSE g)

RECURSIVE run_loop(_, _, _)
run_loop(path, st, fuel) ==
    IF st.pc = "raised" \/ LoopDone(path, st) THEN st
    ELSE IF fuel = 0 THEN LoopRaise(st, "RecursionError")
    ELSE run_loop(path,
                  IF st.pc = "handle" THEN handle_command_call(st)
                  ELSE next_command(path, st),
                  fuel - 1)

RECURSIVE count_numbers(_)
count_numbers(path) ==
    IF path = <<>> THEN 0
    ELSE Len(path[1].numbers) + count_numbers(Tail(path))

\* what the miss branch of init_points computes for a path string: the
\* geometry, or the error it raises
compile(path, cfg) ==
    LET st == run_loop(path, LoopStart, 2 * Len(path) + count_numbers(path) + 1)
    IN  IF st.pc = "raised"
        THEN [status |-> "error", err |-> st.err, points |-> EmptyGeometry]
        ELSE [status |-> "ok", err |-> "", points |-> post_process(st.points, cfg)]

Loop == [pc |-> pc, idx |-> idx, command |-> command, new_points |-> new_points,
         relative_point |-> relative_point, points |-> points, err |-> "",
         depth |-> depth]

\* the loop moves to state st; an exception leaves init_points
Step(st) ==
    IF st.pc = "raised"
    THEN /\ result' = Raised(st.err, TRUE)
         /\ pc' = "idle"
         /\ idx' = 0
         /\ command' = NoCommand
         /\ new_points' = <<>>
         /\ points' = EmptyGeometry
         /\ relative_point' = ORIGIN
         /\ depth' = 0
    ELSE /\ pc' = st.pc
         /\ depth' = st.depth
         /\ idx' = st.idx
         /\ command' = st.command
         /\ new_points' = st.new_points
         /\ points' = st.points
         /\ relative_point' = st.relative_point
         /\ UNCHANGED result

\* the cache-hit branch: self.set_points(np.load(points_filepath));
\* np.load raises when the file cannot be read
init_points_load(cfg) ==
    /\ pc = "idle"
    /\ runs_left > 0
    /\ cache_hit(points_file.exists, tris_file)
    /\ runs_left' = runs_left - 1
    /\ config' = cfg
    /\ prev' = result
    /\ \E readable \in BOOLEAN :
          result' = IF readable
                    THEN [Returned(points_file.data, FALSE) EXCEPT !.config = cfg]
                    ELSE [Raised("IOError", FALSE) EXCEPT !.config = cfg]
    /\ UNCHANGED <<path_string, pc, idx, command, new_points, relative_point,
                   points, points_file, tris_file, depth>>
    /\ UNCHANGED <<walk_vars, ext_vars>>

\* the miss branch up to the loop over the commands
init_points_begin(cfg) ==
    /\ pc = "idle"
    /\ runs_left > 0
    /\ ~cache_hit(points_file.exists, tris_file)
    /\ runs_left' = runs_left - 1
    /\ config' = cfg
    /\ prev' = result
    /\ result' = NoResult
    /\ relative_point' = LoopStart.relative_point
    /\ points' = LoopStart.points
    /\ idx' = LoopStart.idx
    /\ pc' = LoopStart.pc
    /\ UNCHANGED <<path_string, command, new_points, points_file, tris_file,
                   depth>>
    /\ UNCHANGED <<walk_vars, ext_vars>>

init_points_next_command ==
    /\ pc = "commands"
    /\ idx <= Len(path_string)
    /\ Step(next_command(path_string, Loop))
    /\ UNCHANGED <<path_string, config, points_file, tris_file, runs_left, prev>>
    /\ UNCHANGED <<walk_vars, ext_vars>>

handle_command ==
    /\ pc = "handle"
    /\ Step(handle_command_call(Loop))
    /\ UNCHANGED <<path_string, config, points_file, tris_file, runs_left, prev>>
    /\ UNCHANGED <<walk_vars, ext_vars>>

\* after the loop: the post-processing, then np.save, which may raise (the
\* file is then left as it was)
init_points_finish ==
    /\ pc = "commands"
    /\ LoopDone(path_string, Loop)
    /\ LET final == post_process(points, config)
       IN  \E writable \in BOOLEAN :
              IF writable
              THEN /\ points_file' = Stored(final)
                   /\ result' = Returned(final, TRUE)
              ELSE /\ points_file' = points_file
                   /\ result' = Raised("IOError", TRUE)
    /\ pc' = "idle"
    /\ idx' = 0
    /\ points' = EmptyGeometry
    /\ relative_point' = ORIGIN
    /\ UNCHANGED <<path_string, config, command, new_points, tris_file,
                   runs_left, prev, depth>>
    /\ UNCHANGED <<walk_vars, ext_vars>>

\* the rendering layer stores the triangulation of the string's geometry
write_tris_file ==
    /\ pc = "idle"
    /\ points_file.exists
    /\ ~tris_file
    /\ tris_file' = TRUE
    /\ UNCHANGED <<path_string, config, pc, idx, command, new_points,
                   relative_point, points, points_file, runs_left, result, prev,
                   depth>>
    /\ UNCHANGED <<walk_vars, ext_vars>>

\* the document walker's variables while no document is being parsed
Unset == "unset"
Props == {"fill", "stroke-width"}
NoStyle == [p \in Props |-> Unset]
Ids == {"a", "b"}
NoEntry == [defined |-> FALSE, style |-> NoStyle, element |-> 0]
EmptyDefMap == [i \in Ids |-> NoEntry]

WalkIdle ==
    /\ doc = <<>>
    /\ svg_index = 0
    /\ stack = <<>>
    /\ def_map = EmptyDefMap
    /\ submobjects = <<>>
    /\ warnings = <<>>
    /\ walk_pc = "idle"

\* the variables of the shape handlers, of register_font and of
\* ImageMobject while none of them runs
NoElement == [tag |-> "none"]
NoMobject == [kind |-> "none"]

ShapeIdle ==
    /\ element = NoElement
    /\ inherited_style = NoStyle
    /\ mobject = NoMobject
    /\ shape_pc = "idle"
    /\ op_index = 0

FontIdle ==
    /\ font = [name |-> "", given |-> FALSE, in_input_folder |-> FALSE]
    /\ font_pc = "idle"
    /\ pango = [calls |-> <<>>, registered |-> {}]

ImageIdle ==
    /\ image = [pw |-> 0, ph |-> 0]
    /\ sample = ORIGIN
    /\ rgb = [status |-> "none"]

NoCall == [made |-> FALSE]

RectIdle ==
    /\ rect_style = [constructed |-> FALSE]
    /\ rect_call = NoCall
    /\ rect_calls_left = 0

ExtIdle == ShapeIdle /\ FontIdle /\ ImageIdle /\ RectIdle

InitPath == InitPathVars(PathStrings(MaxArgs), 1) /\ WalkIdle /\ ExtIdle

NextPath ==
    \/ init_points_begin(FALSE)
    \/ init_points_next_command
    \/ handle_command
    \/ init_points_finish

SpecPath == InitPath /\ [][NextPath]_vars

InitCache == InitPathVars(CachedPathStrings, MaxCompiles) /\ WalkIdle /\ ExtIdle

NextCache ==
    \/ \E cfg \in BOOLEAN : init_points_load(cfg)
    \/ \E cfg \in BOOLEAN : init_points_begin(cfg)
    \/ init_points_next_command
    \/ handle_command
    \/ init_points_finish
    \/ write_tris_file

SpecCache == InitCache /\ [][NextCache]_vars

-----------------------------------------------------------------------------
(* Claims about the path-command compiler                                   *)

Finished == pc = "idle" /\ result.status # "none"
FinishedOk == pc = "idle" /\ result.status = "ok" /\ result.compiled

NPairs(c) == Len(c.numbers) \div 2
Pair(c, k) == <<c.numbers[2 * k - 1], c.numbers[2 * k]>>
Pairs(c) == [k \in 1..NPairs(c) |-> Pair(c, k)]

Cmd(c, ps) == [cmd |-> c, numbers |-> Flat(ps)]

\* one command per coordinate pair: "L p1 p2" as "L p1 L p2"
OnePerPair(c, ps) == [k \in 1..Len(ps) |-> Cmd(c, <<ps[k]>>)]

\* "M p0 p1 .. pn" written out as "M p0 L p1 .. L pn"
RECURSIVE explicit_moves(_)
explicit_moves(path) ==
    IF path = <<>> THEN <<>>
    ELSE LET c == path[1]
         IN  (IF c.cmd = "M" /\ NPairs(c) > 1
              THEN <<Cmd("M", <<Pair(c, 1)>>)>>
                   \o OnePerPair("L", Tail(Pairs(c)))
              ELSE <<c>>)
             \o explicit_moves(Tail(path))

HasImplicitMove(path) ==
    \E i \in DOMAIN path : path[i].cmd = "M" /\ NPairs(path[i]) > 1

\* the point a path string leaves as the current point, before the Y flip
current_point(path) == flip_point(get_last_point(compile(path, FALSE).points))

Front(path) == SubSeq(path, 1, Len(path) - 1)
Last(path) == path[Len(path)]

\* the end points of the last n segments of the last subpath of geometry g
last_ends(g, n) ==
    LET segs == g[Len(g)].segs
    IN  [k \in 1..n |-> LET sg == segs[Len(segs) - n + k] IN sg.pts[Len(sg.pts)]]

RECURSIVE sum_to(_, _)
sum_to(ns, k) == IF k = 0 THEN 0 ELSE ns[k] + sum_to(ns, k - 1)

RECURSIVE point_sum_to(_, _)
point_sum_to(ps, k) == IF k = 0 THEN ORIGIN ELSE Add(ps[k], point_sum_to(ps, k - 1))

\* C1: compiling "M p0 p1 .. pn" yields the same points as compiling
\* "M p0 L p1 .. L pn": every extra pair after an absolute M is a line-to to
\* that absolute coordinate, whatever the current point was before the M.
C1_ImplicitLineTo ==
    (FinishedOk /\ HasImplicitMove(path_string))
        => result.points = compile(explicit_moves(path_string), config).points

\* C2: a start point p0 followed by relative line offsets d1..dn, written as
\* separate l commands or as several tuples after one l: segment k ends at
\* p0 + d1 + .. + dk, and the points are those of the absolute form
\* "M p0 L p0+d1 L p0+d1+d2 ..".
RelativeLines(path) ==
    /\ Len(path) >= 2
    /\ path[1].cmd \in {"M", "m"}
    /\ NPairs(path[1]) = 1
    /\ \A i \in 2..Len(path) : path[i].cmd = "l"

RECURSIVE offsets(_)
offsets(path) == IF path = <<>> THEN <<>> ELSE Pairs(path[1]) \o offsets(Tail(path))

absolute_form(path) ==
    LET p0 == Pair(path[1], 1)
        ds == offsets(Tail(path))
    IN  <<Cmd("M", <<p0>>)>>
        \o [k \in 1..Len(ds) |-> Cmd("L", <<Add(p0, point_sum_to(ds, k))>>)]

C2_RelativeAccumulation ==
    (FinishedOk /\ RelativeLines(path_string))
        => LET p0 == Pair(path_string[1], 1)
               ds == offsets(Tail(path_string))
           IN  /\ Len(result.points) = 1
               /\ result.points[1].start = flip_point(p0)
               /\ last_ends(result.points, Len(ds))
                      = [k \in 1..Len(ds) |-> flip_point(Add(p0, point_sum_to(ds, k)))]
               /\ result.points = compile(absolute_form(path_string), config).points

C2_Witness ==
    /\ FinishedOk
    /\ RelativeLines(path_string)
    /\ Len(path_string) = 2
    /\ NPairs(path_string[2]) = 2
    /\ Pair(path_string[1], 1) # ORIGIN
    /\ Pair(path_string[2], 1) # ORIGIN
    /\ Pair(path_string[2], 2) # ORIGIN

\* C3 as claimed: the last command is a relative h (v) with one value c, and
\* the endpoint has the omitted axis at 0: (x + c, 0) after "h c" from (x, y).
EndsWithAxis(path, letter) ==
    /\ Len(path) >= 2
    /\ Last(path).cmd = letter
    /\ Len(Last(path).numbers) >= 1

C3_RelativeAxisDropped ==
    /\ (FinishedOk /\ EndsWithAxis(path_string, "h"))
          => get_last_point(result.points)
                 = flip_point(<<current_point(Front(path_string))[1]
                                   + sum_to(Last(path_string).numbers,
                                            Len(Last(path_string).numbers)), 0>>)
    /\ (FinishedOk /\ EndsWithAxis(path_string, "v"))
          => get_last_point(result.points)
                 = flip_point(<<0, current_point(Front(path_string))[2]
                                   + sum_to(Last(path_string).numbers,
                                            Len(Last(path_string).numbers))>>)

\* C3 amended: a relative h (v) moves along its own axis only; the omitted
\* axis of every endpoint is the current point's, so "h c1 .. ck" from (x, y)
\* ends its segments at (x + c1 + .. + cj, y), and "m5,5 h20" ends at (25, 5).
C3_RelativeAxisKept ==
    \A letter \in {"h", "v"} :
        (FinishedOk /\ EndsWithAxis(path_string, letter))
            => LET ns == Last(path_string).numbers
                   cur == current_point(Front(path_string))
               IN  last_ends(result.points, Len(ns))
                       = [j \in 1..Len(ns) |->
                             flip_point(IF letter = "h"
                                        THEN <<cur[1] + sum_to(ns, j), cur[2]>>
                                        ELSE <<cur[1], cur[2] + sum_to(ns, j)>>)]

C3_Witness ==
    /\ FinishedOk
    /\ Len(path_string) = 2
    /\ path_string[1].cmd = "m"
    /\ EndsWithAxis(path_string, "h")
    /\ current_point(Front(path_string))[2] # 0
    /\ get_last_point(result.points)[2] # 0

\* C4: from the current point (x, y) the preceding command left, absolute
\* "H a1 .. ak" ends its segments at (aj, y) and absolute "V b1 .. bk" at
\* (x, bj), before the Y flip.
C4_AbsoluteAxis ==
    \A letter \in {"H", "V"} :
        (FinishedOk /\ EndsWithAxis(path_string, letter))
            => LET ns == Last(path_string).numbers
                   cur == current_point(Front(path_string))
               IN  last_ends(result.points, Len(ns))
                       = [j \in 1..Len(ns) |->
                             flip_point(IF letter = "H"
                                        THEN <<ns[j], cur[2]>>
                                        ELSE <<cur[1], ns[j]>>)]

C4_Witness ==
    /\ FinishedOk
    /\ EndsWithAxis(path_string, "H")
    /\ Len(Last(path_string).numbers) = 2
    /\ current_point(Front(path_string))[2] # 0

HasArc(path) == \E i \in DOMAIN path : path[i].cmd \in {"A", "a"}

\* C5: compiling a path string that contains the letter A or a at any
\* position fails with the not-implemented error: the run never returns
\* geometry, and no points file is stored for the string.
C5_ArcNotImplemented ==
    HasArc(path_string)
        => /\ result.status # "ok"
           /\ ~points_file.exists
           /\ Finished => /\ result.status = "error"
                          /\ result.err = "Not implemented"
                          /\ result.points = EmptyGeometry

C5_Witness ==
    /\ Finished
    /\ Len(path_string) = 3
    /\ path_string[2].cmd = "L"
    /\ path_string[3].cmd = "a"
    /\ result.err = "Not implemented"

\* C6: compiling "M p0 L p1 .. L pn Z" with pn # p0 yields exactly one
\* closed subpath of n+1 segments whose last segment ends at the subpath's
\* start point, and every compiled point is the input point with only its Y
\* coordinate negated.
ClosedPolyline(path) ==
    /\ Len(path) >= 3
    /\ path[1].cmd = "M"
    /\ NPairs(path[1]) = 1
    /\ \A i \in 2..(Len(path) - 1) : path[i].cmd = "L"
    /\ Last(path).cmd = "Z"
    /\ current_point(Front(path)) # Pair(path[1], 1)

RunStarts == runs_left' = runs_left - 1

C7_CacheIdempotence ==
    /\ [](( /\ pc = "idle"
            /\ result.status = "ok"
            /\ prev.status = "ok"
            /\ result.config = prev.config) => result.points = prev.points)
    /\ [](( pc = "idle" /\ result.status = "ok" /\ ~result.compiled)
              => result.points = points_file.data)
    /\ [][RunStarts => ((pc' = "idle" /\ ~result'.compiled)
                            <=> (points_file.exists /\ tris_file))]_vars
    /\ [][(RunStarts /\ points_file.exists /\ ~tris_file) => pc' = "commands"]_vars

C7_Witness ==
    /\ pc = "idle"
    /\ result.status = "ok"
    /\ ~result.compiled
    /\ prev.status = "ok"
    /\ prev.compiled
    /\ result.config = prev.config
    /\ Len(result.points) = 1
    /\ result.points[1].start[2] < 0

\* C8: no cache I/O error makes a run on a valid path string fail: an
\* unreadable points file falls back to recomputation, and a failed write
\* still returns the geometry.
C8_CacheFailuresNonFatal ==
    (Finished /\ compile(path_string, config).status = "ok")
        => /\ result.status = "ok"
           /\ result.points # EmptyGeometry

\* C18: once a points entry is stored for the path string, no later run,
\* whatever its post-processing options and whether or not the _tris file
\* exists, changes the stored content.
C18_CacheWriteOnce ==
    [][points_file.exists => points_file' = points_file]_vars

-----------------------------------------------------------------------------
(* SVGMobject: the document walker.                                         *)
(*                                                                          *)
(* A document is the sequence of its elements in document order; each       *)
(* element records its tag, its parent, its id and xlink:href attributes    *)
(* ("" when absent) and the style properties it sets itself.  The elements  *)
(* of the bounded documents carry no x, y or transform attribute, so        *)
(* handle_transforms leaves their geometry as it is, and unpack_groups has  *)
(* its default, True.                                                       *)

Containers == {"g", "svg", "symbol", "defs"}

Own(fill, width) == [p \in Props |-> IF p = "fill" THEN fill ELSE width]

Element(tag, id, href, own) ==
    [tag |-> tag, parent |-> 0, id |-> id, href |-> href, own |-> own]

\* the elements the bounded documents are built from
ElementKinds ==
    {Element("defs", "", "", NoStyle), Element("svg", "", "", NoStyle)}
    \cup {Element("g", id, "", own) :
             id \in {"", "a"}, own \in {NoStyle, Own("red", Unset)}}
    \cup {Element("path", id, "", own) :
             id \in {"", "a"},
             own \in {NoStyle, Own("red", Unset), Own("blue", Unset), Own(Unset, "2")}}
    \cup {Element("use", "", href, own) :
             href \in {"#a", "#b"},
             own \in {NoStyle, Own("red", Unset), Own("blue", Unset), Own(Unset, "4")}}
    \cup {Element("use", "a", href, NoStyle) : href \in {"#a", "#b"}}

RECURSIVE AncestorsOrSelf(_, _)
AncestorsOrSelf(d, n) == IF n = 0 THEN {} ELSE {n} \cup AncestorsOrSelf(d, d[n].parent)

\* an element is appended below the last element or below one of its ancestors
RECURSIVE Documents(_)
Documents(n) ==
    IF n = 0 THEN {<<Element("svg", "", "", NoStyle)>>}
    ELSE LET smaller == Documents(n - 1)
         IN  smaller \cup
             {Append(d, [k EXCEPT !.parent = par]) :
                 <<d, k, par>> \in
                     {t \in smaller \X ElementKinds \X (1..n) :
                         /\ Len(t[1]) = n
                         /\ t[3] \in AncestorsOrSelf(t[1], n)
                         /\ t[1][t[3]].tag \in Containers}}

RECURSIVE select(_, _, _)
select(d, n, k) ==
    IF k > Len(d) THEN <<>>
    ELSE (IF d[k].parent = n THEN <<k>> ELSE <<>>) \o select(d, n, k + 1)

\* element.childNodes
childNodes(d, n) == select(d, n, 1)

RECURSIVE tagged(_, _, _)
tagged(d, tag, k) ==
    IF k > Len(d) THEN <<>>
    ELSE (IF d[k].tag = tag THEN <<k>> ELSE <<>>) \o tagged(d, tag, k + 1)

\* doc.getElementsByTagName("svg")
getElementsByTagName(d, tag) == tagged(d, tag, 1)

\* own attributes win over the inherited ones
cascade_element_style(own, inherited) ==
    [p \in Props |-> IF own[p] # Unset THEN own[p] ELSE inherited[p]]

use_style_local_wins(local_style, def_style) ==
    [p \in Props |-> IF local_style[p] # Unset THEN local_style[p] ELSE def_style[p]]

\* style = local_style.copy(); style.update(def_style)
use_style(local_style, def_style) ==
    [p \in Props |-> IF def_style[p] # Unset THEN def_style[p] ELSE local_style[p]]

\* ref = use_element.getAttribute("xlink:href")[1:]
use_ref(href) == IF href = "#a" THEN "a" ELSE IF href = "#b" THEN "b" ELSE ""

unresolved_use_raises(ref) == [raises |-> TRUE, warns |-> FALSE, mobjects |-> <<>>]

\* except KeyError: warnings.warn(warning_text); return []
unresolved_use(ref) == [raises |-> FALSE, warns |-> TRUE, mobjects |-> <<>>]

Mobject(n, style) == [element |-> n, style |-> style]

\* get_mobjects_from up to the end of its tag dispatch; the children of a
\* container and the target of a use are walked by the calls that follow
enter(d, n, inherited, within_defs) ==
    LET style == cascade_element_style(d[n].own, inherited)
        tag == d[n].tag
    IN  [element |-> n,
         inherited |-> inherited,
         style |-> style,
         within_defs |-> within_defs,
         next_child |-> 1,
         result |-> IF tag = "path" THEN <<Mobject(n, style)>> ELSE <<>>,
         stage |-> IF tag \in Containers THEN "children"
                   ELSE IF tag = "use" THEN "use" ELSE "return"]

Top == stack[Len(stack)]

Push(frame) ==
    IF Len(stack) >= MaxDepth
    THEN /\ walk_pc' = "raised"
         /\ stack' = <<>>
    ELSE /\ stack' = Append(stack, frame)
         /\ UNCHANGED walk_pc

InitWalk ==
    /\ InitPathVars({<<>>}, 0)
    /\ ExtIdle
    /\ doc \in Documents(MaxElements)
    /\ svg_index = 1
    /\ stack = <<>>
    /\ def_map = EmptyDefMap
    /\ submobjects = <<>>
    /\ warnings = <<>>
    /\ walk_pc = "svgs"

\* SVGMobject.init_points: for svg in doc.getElementsByTagName("svg")
init_points_next_svg ==
    /\ walk_pc = "svgs"
    /\ stack = <<>>
    /\ LET svgs == getElementsByTagName(doc, "svg")
       IN  IF svg_index <= Len(svgs)
           THEN /\ stack' = <<enter(doc, svgs[svg_index], NoStyle, FALSE)>>
                /\ UNCHANGED walk_pc
           ELSE /\ walk_pc' = "done"
                /\ UNCHANGED stack
    /\ UNCHANGED <<doc, svg_index, def_map, submobjects, warnings, path_vars, ext_vars>>

\* the recursive call on the next child of a g, svg, symbol or defs element
get_mobjects_from ==
    /\ walk_pc = "svgs"
    /\ stack # <<>>
    /\ Top.stage = "children"
    /\ LET kids == childNodes(doc, Top.element)
       IN  /\ Top.next_child <= Len(kids)
           /\ Push(enter(doc, kids[Top.next_child], Top.style,
                         Top.within_defs \/ doc[Top.element].tag = "defs"))
    /\ UNCHANGED <<doc, svg_index, def_map, submobjects, warnings, path_vars, ext_vars>>

use_to_mobjects ==
    /\ walk_pc = "svgs"
    /\ stack # <<>>
    /\ Top.stage = "use"
    /\ LET ref == use_ref(doc[Top.element].href)
       IN  IF def_map[ref].defined
           THEN /\ Push(enter(doc, def_map[ref].element,
                              use_style(Top.style, def_map[ref].style), FALSE))
                /\ UNCHANGED warnings
           ELSE LET out == unresolved_use(ref)
                IN  IF out.raises
                    THEN /\ walk_pc' = "raised"
                         /\ stack' = <<>>
                         /\ UNCHANGED warnings
                    ELSE /\ stack' = [stack EXCEPT ![Len(stack)].result = out.mobjects,
                                                   ![Len(stack)].stage = "return"]
                         /\ warnings' = IF out.warns THEN Append(warnings, ref)
                                        ELSE warnings
                         /\ UNCHANGED walk_pc
    /\ UNCHANGED <<doc, svg_index, def_map, submobjects, path_vars, ext_vars>>

\* the end of get_mobjects_from: the registration of an element with an id
\* inside defs, and the list handed back to the caller
get_mobjects_from_return ==
    /\ walk_pc = "svgs"
    /\ stack # <<>>
    /\ \/ Top.stage = "return"
       \/ /\ Top.stage = "children"
          /\ Top.next_child > Len(childNodes(doc, Top.element))
    /\ LET e == doc[Top.element]
           returned == IF e.tag = "defs" THEN <<>> ELSE Top.result
           below == Len(stack) - 1
       IN  /\ def_map' = IF Top.within_defs /\ e.id # ""
                         THEN [def_map EXCEPT ![e.id] =
                                  [defined |-> TRUE, style |-> Top.style,
                                   element |-> Top.element]]
                         ELSE def_map
           /\ IF below = 0
              THEN /\ stack' = <<>>
                   /\ submobjects' = submobjects \o returned
                   /\ svg_index' = svg_index + 1
              ELSE /\ stack' = [SubSeq(stack, 1, below) EXCEPT
                                   ![below].result = @ \o returned,
                                   ![below].next_child =
                                       IF stack[below].stage = "children"
                                       THEN @ + 1 ELSE @,
                                   ![below].stage =
                                       IF stack[below].stage = "use"
                                       THEN "return" ELSE @]
                   /\ UNCHANGED <<submobjects, svg_index>>
    /\ UNCHANGED <<doc, warnings, walk_pc, path_vars, ext_vars>>

NextWalk ==
    \/ init_points_next_svg
    \/ get_mobjects_from
    \/ use_to_mobjects
    \/ get_mobjects_from_return

SpecWalk == InitWalk /\ [][NextWalk]_vars

-----------------------------------------------------------------------------
(* Claims about the document walker                                         *)

AtUse == walk_pc = "svgs" /\ stack # <<>> /\ Top.stage = "use"
TopRef == use_ref(doc[Top.element].href)
UseResolves == AtUse /\ def_map[TopRef].defined
UseUnresolved == AtUse /\ ~def_map[TopRef].defined

\* C9: when a use resolves, the style handed to the walk of the referenced
\* element has, for every property present in the style recorded at
\* definition time, the definition-time value, and the use-site value only
\* for the properties absent from it; the referenced element's own resolved
\* style, and the geometry it emits, keep the definition-time values.
C9_UseStylePrecedence ==
    [][(UseResolves /\ walk_pc' = "svgs")
          => LET entry == def_map[TopRef]
                 called == stack'[Len(stack')]
             IN  /\ Len(stack') = Len(stack) + 1
                 /\ called.element = entry.element
                 /\ \A p \in Props :
                       /\ entry.style[p] # Unset
                             => /\ called.inherited[p] = entry.style[p]
                                /\ called.style[p] = entry.style[p]
                       /\ entry.style[p] = Unset
                             => called.inherited[p] = Top.style[p]
                 /\ \A k \in DOMAIN called.result :
                       called.result[k].style = called.style]_vars

C9_Witness ==
    /\ walk_pc = "svgs"
    /\ Len(stack) >= 2
    /\ doc[stack[Len(stack) - 1].element].tag = "use"
    /\ stack[Len(stack) - 1].style["fill"] = "blue"
    /\ def_map["a"].defined
    /\ def_map["a"].style["fill"] = "red"
    /\ Top.element = def_map["a"].element
    /\ Top.inherited["fill"] = "red"
    /\ Top.result # <<>>
    /\ Top.result[1].style["fill"] = "red"

OutsideDefs(d, n) == \A a \in AncestorsOrSelf(d, n) : d[a].tag # "defs"

\* C10: a use whose referenced id is not in def_map contributes the empty
\* list and raises nothing, only a warning: def_map and the calls below are
\* left as they are, and the walk goes on to the remaining elements, so that
\* a finished walk holds the geometry of every path outside defs.
C10_UnresolvedUse ==
    /\ [][UseUnresolved
            => /\ walk_pc' = "svgs"
               /\ def_map' = def_map
               /\ submobjects' = submobjects
               /\ warnings' = Append(warnings, TopRef)
               /\ Len(stack') = Len(stack)
               /\ SubSeq(stack', 1, Len(stack) - 1) = SubSeq(stack, 1, Len(stack) - 1)
               /\ stack'[Len(stack')].result = <<>>
               /\ stack'[Len(stack')].stage = "return"]_vars
    /\ [](walk_pc = "done"
            => \A n \in DOMAIN doc :
                  (doc[n].tag = "path" /\ OutsideDefs(doc, n))
                      => \E k \in DOMAIN submobjects : submobjects[k].element = n)

C10_Witness ==
    /\ walk_pc = "done"
    /\ Len(warnings) = 2
    /\ Len(doc) = 4
    /\ doc[2].tag = "use"
    /\ doc[3].tag = "use"
    /\ doc[4].tag = "path"
    /\ Len(submobjects) = 1

-----------------------------------------------------------------------------
(* SVGMobject: the shape handlers and handle_transforms.                    *)
(*                                                                          *)
(* get_mobjects_from on one leaf element: the style cascade, the handler    *)
(* the tag dispatches to, handle_transforms and the return.  An element     *)
(* records its tag, the style properties it sets itself, its points         *)
(* attribute as the list of its coordinate pairs (written "x,y" and         *)
(* separated by single spaces), its d attribute after tokenisation, its x   *)
(* and y attributes and its transform attribute as the list of the entries  *)
(* the regular expression finds.  Path strings are compiled on an empty     *)
(* cache directory.                                                         *)

MaxPoints == 3
MaxOps == 2

Fills == {Unset, "red", "blue"}
Widths == {Unset, "2", "4"}
Styles == {Own(f, w) : f \in Fills, w \in Widths}

\* coordinate pairs of a points attribute, two with a minus sign
PolyPts == {<<0, 0>>, <<1, MaxCoord>>, <<0 - 1, MaxCoord>>, <<MaxCoord, 0 - 1>>}
PointLists == UNION {[1..n -> PolyPts] : n \in 1..MaxPoints}

NoAttr == [has |-> FALSE, value |-> 0]
Attr(v) == [has |-> TRUE, value |-> v]

Op(name, args) == [name |-> name, args |-> args]

TransformOps ==
    {Op("matrix", <<1, 1, 0, 1, 1, 2>>), Op("matrix", <<0, 1, 0 - 1, 0, 0, 0>>),
     Op("translate", <<1>>), Op("translate", <<1, 2>>),
     Op("scale", <<2>>), Op("scale", <<2, 3>>),
     Op("rotate", <<90>>), Op("skewX", <<1>>), Op("skewY", <<1>>)}

Transforms == UNION {[1..n -> TransformOps] : n \in 0..MaxOps}

ShapeTags == {"path", "rect", "circle", "ellipse", "polygon", "polyline"}

SamplePath == <<Cmd("M", <<<<1, 2>>>>), Cmd("L", <<<<2, 1>>>>)>>

ShapeElement(tag, own, pts, d, x, y, transform) ==
    [tag |-> tag, own |-> own, points |-> pts, d |-> d, x |-> x, y |-> y,
     transform |-> transform]

\* elements without x, y and transform, in every style context
PlainElements ==
    {ShapeElement(tag, own, <<>>, <<>>, NoAttr, NoAttr, <<>>) :
        tag \in {"rect", "circle", "ellipse", "path"}, own \in Styles}
    \cup {ShapeElement("path", own, <<>>, SamplePath, NoAttr, NoAttr, <<>>) :
             own \in Styles}
    \cup {ShapeElement(tag, own, pts, <<>>, NoAttr, NoAttr, <<>>) :
             tag \in {"polygon", "polyline"}, own \in {NoStyle, Own("red", "2")},
             pts \in PointLists}

\* path elements with x, y and transform attributes
TransformedElements ==
    {ShapeElement("path", NoStyle, <<>>, SamplePath, x, y, t) :
        x \in {NoAttr, Attr(1)}, y \in {NoAttr, Attr(2)}, t \in Transforms}

\* maps the SVG property names to the mobject's keyword arguments
parse_style(style) ==
    [fill_color |-> style["fill"], stroke_width |-> style["stroke-width"]]

NewMobject(kind, style, path, g) ==
    [kind |-> kind, style |-> style, path_string |-> path, points |-> g]

\* path_string.replace(" " + digit, " L" + digit): a pair gets its L when
\* its text begins with a digit
begins_with_digit(p) == p[1] >= 0

RECURSIVE replace_digits(_, _)
replace_digits(pts, k) ==
    IF k = 1 THEN <<Cmd("M", <<pts[1]>>)>>
    ELSE LET before == replace_digits(pts, k - 1)
         IN  IF begins_with_digit(pts[k])
             THEN Append(before, Cmd("L", <<pts[k]>>))
             ELSE [before EXCEPT ![Len(before)].numbers = @ \o Flat(<<pts[k]>>)]

\* the path string polygon_to_mobject hands to path_string_to_mobject
polygon_path_string(tag, pts) ==
    replace_digits(pts, Len(pts))
    \o (IF tag = "polygon" THEN <<Cmd("Z", <<>>)>> ELSE <<>>)

\* stroke_width of rect_to_mobject: the element's own attribute, 0 when it
\* is absent, "none" or "0"
rect_stroke_width(attribute) ==
    IF attribute \in {Unset, "none", "0"} THEN "0" ELSE attribute

\* Rectangle(width, height) with its top left corner moved to the origin
rect_points(width, height) ==
    <<[start |-> <<0, 0>>,
       segs |-> <<[kind |-> "line", pts |-> << <<width, 0>> >>],
                  [kind |-> "line", pts |-> << <<width, 0 - height>> >>],
                  [kind |-> "line", pts |-> << <<0, 0 - height>> >>],
                  [kind |-> "line", pts |-> << <<0, 0>> >>]>>,
       closed |-> TRUE]>>

\* Circle(radius = r) shifted by x * RIGHT + y * DOWN, given by its centre
circle_points(cx, cy) ==
    <<[start |-> <<cx, 0 - cy>>, segs |-> <<>>, closed |-> TRUE]>>

InitShape ==
    /\ InitPathVars({<<>>}, 0)
    /\ WalkIdle
    /\ FontIdle
    /\ ImageIdle
    /\ RectIdle
    /\ \/ element \in PlainElements /\ inherited_style \in Styles
       \/ element \in TransformedElements /\ inherited_style = NoStyle
    /\ mobject = NoMobject
    /\ shape_pc = "dispatch"
    /\ op_index = 0

Dispatch(tags) == shape_pc = "dispatch" /\ element.tag \in tags

ShapeStyle == cascade_element_style(element.own, inherited_style)

ShapeFrame == UNCHANGED <<element, inherited_style, op_index, path_vars,
                          walk_vars, font_vars, image_vars, rect_vars>>

\* elif element.tagName == "path": an empty d attribute adds nothing
path_string_to_mobject ==
    /\ Dispatch({"path"})
    /\ LET compiled == compile(element.d, FALSE)
       IN  IF element.d = <<>>
           THEN mobject' = NoMobject /\ shape_pc' = "transforms"
           ELSE IF compiled.status = "error"
           THEN mobject' = NoMobject /\ shape_pc' = "raised"
           ELSE /\ mobject' = NewMobject("path", parse_style(ShapeStyle),
                                         element.d, compiled.points)
                /\ shape_pc' = "transforms"
    /\ ShapeFrame

polygon_to_mobject ==
    /\ Dispatch({"polygon", "polyline"})
    /\ LET path == polygon_path_string(element.tag, element.points)
           compiled == compile(path, FALSE)
       IN  IF compiled.status = "error"
           THEN mobject' = NoMobject /\ shape_pc' = "raised"
           ELSE /\ mobject' = NewMobject("path", parse_style(ShapeStyle),
                                         path, compiled.points)
                /\ shape_pc' = "transforms"
    /\ ShapeFrame

rect_to_mobject ==
    /\ Dispatch({"rect"})
    /\ mobject' = NewMobject("rect",
                     [parse_style(ShapeStyle) EXCEPT
                         !.stroke_width = rect_stroke_width(element.own["stroke-width"])],
                     <<>>, rect_points(MaxCoord, 1))
    /\ shape_pc' = "transforms"
    /\ ShapeFrame

circle_to_mobject ==
    /\ Dispatch({"circle"})
    /\ mobject' = NewMobject("circle", parse_style(ShapeStyle), <<>>,
                             circle_points(1, MaxCoord))
    /\ shape_pc' = "transforms"
    /\ ShapeFrame

ellipse_to_mobject ==
    /\ Dispatch({"ellipse"})
    /\ mobject' = NewMobject("ellipse", parse_style(ShapeStyle), <<>>,
                             circle_points(1, MaxCoord))
    /\ shape_pc' = "transforms"
    /\ ShapeFrame

\* handle_transforms, called on the group of the element's mobjects

RECURSIVE map_points(_, _, _)
map_points(g, F(_), i) ==
    IF i > Len(g) THEN <<>>
    ELSE <<[g[i] EXCEPT
              !.start = F(@),
              !.segs = [k \in DOMAIN @ |->
                          [@[k] EXCEPT !.pts = [j \in DOMAIN @ |-> F(@[j])]]]]>>
         \o map_points(g, F, i + 1)

\* mobject.shift(v) on the group of the element's mobjects
shift(m, v) ==
    IF m.kind = "none" THEN m
    ELSE LET moved(p) == Add(p, v)
         IN  [m EXCEPT !.points = map_points(m.points, moved, 1)]

\* mobject.scale(np.array([sx, sy, 1]), about_point=ORIGIN)
scale(m, sx, sy) ==
    IF m.kind = "none" THEN m
    ELSE LET scaled(p) == <<sx * p[1], sy * p[2]>>
         IN  [m EXCEPT !.points = map_points(m.points, scaled, 1)]

apply_matrix_unflipped(m, args) ==
    IF m.kind = "none" THEN m
    ELSE LET dot(p) == <<p[1] * args[1] + p[2] * args[3],
                         p[1] * args[2] + p[2] * args[4]>>
         IN  [m EXCEPT !.points = map_points(m.points, dot, 1)]

\* mob.points = np.dot(mob.points, matrix) for the matrix built from
\* (a, b, c, d): rows (a, -b) and (-c, d) after the two sign changes
apply_matrix(m, args) ==
    IF m.kind = "none" THEN m
    ELSE LET dot(p) == <<p[1] * args[1] - p[2] * args[3],
                         p[2] * args[4] - p[1] * args[2]>>
         IN  [m EXCEPT !.points = map_points(m.points, dot, 1)]

has_position(e) == e.x.has /\ e.y.has

position_shift_unflipped(e) == <<e.x.value, e.y.value>>

\* x * RIGHT + y * UP with y = -float(element.getAttribute("y"))
position_shift(e) == <<e.x.value, 0 - e.y.value>>

\* one entry of the transform attribute
apply_op(m, op) ==
    IF op.name = "matrix"
    THEN shift(apply_matrix(m, op.args), <<op.args[5], 0 - op.args[6]>>)
    ELSE IF op.name = "scale"
    THEN IF Len(op.args) = 2 THEN scale(m, op.args[1], op.args[2])
         ELSE IF Len(op.args) = 1 THEN scale(m, op.args[1], op.args[1])
         ELSE m
    ELSE IF op.name = "translate"
    THEN IF Len(op.args) = 2 THEN shift(m, <<op.args[1], 0 - op.args[2]>>)
         ELSE shift(m, <<op.args[1], 0>>)
    ELSE m

TransformFrame == UNCHANGED <<element, inherited_style, path_vars, walk_vars,
                              font_vars, image_vars,
                              rect_vars>>

\* the positional shift, and the parsing of the transform attribute
handle_transforms ==
    /\ shape_pc = "transforms"
    /\ mobject' = IF has_position(element)
                  THEN shift(mobject, position_shift(element))
                  ELSE mobject
    /\ op_index' = 1
    /\ shape_pc' = "ops"
    /\ TransformFrame

\* for t in transforms: one pass of the loop
handle_transforms_op ==
    /\ shape_pc = "ops"
    /\ op_index <= Len(element.transform)
    /\ mobject' = apply_op(mobject, element.transform[op_index])
    /\ op_index' = op_index + 1
    /\ UNCHANGED shape_pc
    /\ TransformFrame

\* the end of the loop and of get_mobjects_from for the element
handle_transforms_return ==
    /\ shape_pc = "ops"
    /\ op_index > Len(element.transform)
    /\ shape_pc' = "returned"
    /\ UNCHANGED <<mobject, op_index>>
    /\ TransformFrame

NextShape ==
    \/ path_string_to_mobject
    \/ polygon_to_mobject
    \/ rect_to_mobject
    \/ circle_to_mobject
    \/ ellipse_to_mobject
    \/ handle_transforms
    \/ handle_transforms_op
    \/ handle_transforms_return

SpecShape == InitShape /\ [][NextShape]_vars

-----------------------------------------------------------------------------
(* Claims about the shape handlers                                          *)

ShapeReturned == shape_pc = "returned"

\* "M p0 L p1 .. L pn", with a trailing Z for a polygon
explicit_polygon(tag, pts) ==
    <<Cmd("M", <<pts[1]>>)>>
    \o OnePerPair("L", Tail(pts))
    \o (IF tag = "polygon" THEN <<Cmd("Z", <<>>)>> ELSE <<>>)

\* C11: for every points list, pairs with a negative first coordinate
\* included, polygon_to_mobject hands on the path string with M before the
\* first pair, L before every later pair and a trailing Z exactly for a
\* polygon, and the geometry is that of "M p0 L p1 .. L pn" (closed for a
\* polygon, open for a polyline).
C11_PolygonRewrite ==
    (ShapeReturned /\ element.tag \in {"polygon", "polyline"})
        => /\ mobject.kind = "path"
           /\ mobject.path_string = explicit_polygon(element.tag, element.points)
           /\ mobject.points
                  = compile(explicit_polygon(element.tag, element.points), FALSE).points

(* The transform claims are stated in SVG's own frame (y downward): a      *)
(* point of the mobject is the mirror image of an SVG point.                *)

\* one entry of a transform attribute, as SVG defines it
svg_op(p, op) ==
    IF op.name = "matrix"
    THEN <<op.args[1] * p[1] + op.args[3] * p[2] + op.args[5],
           op.args[2] * p[1] + op.args[4] * p[2] + op.args[6]>>
    ELSE IF op.name = "translate"
    THEN <<p[1] + op.args[1], p[2] + (IF Len(op.args) = 2 THEN op.args[2] ELSE 0)>>
    ELSE IF op.name = "scale"
    THEN <<op.args[1] * p[1], (IF Len(op.args) = 2 THEN op.args[2] ELSE op.args[1]) * p[2]>>
    ELSE p

\* the linear part of the entry alone
svg_linear(p, op) ==
    IF op.name = "matrix"
    THEN <<op.args[1] * p[1] + op.args[3] * p[2],
           op.args[2] * p[1] + op.args[4] * p[2]>>
    ELSE IF op.name = "scale" THEN svg_op(p, op)
    ELSE p

\* the first k entries, one by one from the left
RECURSIVE svg_ops(_, _, _)
svg_ops(p, ops, k) == IF k = 0 THEN p ELSE svg_op(svg_ops(p, ops, k - 1), ops[k])

RECURSIVE svg_linear_ops(_, _, _)
svg_linear_ops(p, ops, k) ==
    IF k = 0 THEN p ELSE svg_linear(svg_linear_ops(p, ops, k - 1), ops[k])

svg_position(e) == IF has_position(e) THEN <<e.x.value, e.y.value>> ELSE ORIGIN

Transformed == ShapeReturned /\ mobject.kind = "path" /\ element.d # <<>>

Untransformed == compile(element.d, FALSE).points

\* C13: the returned geometry is the element's own geometry with, in SVG's
\* frame, the x/y shift applied first (only when both attributes are
\* present) and then the entries of the transform attribute one by one from
\* the left; a rotate, skewX or skewY entry, and a lone x or y attribute,
\* leave the geometry as it is.
C13_TransformOrder ==
    /\ [](Transformed
            => LET ops == element.transform
                   expected(p) ==
                       flip_point(svg_ops(Add(flip_point(p), svg_position(element)),
                                          ops, Len(ops)))
               IN  mobject.points = map_points(Untransformed, expected, 1))
    /\ [][(shape_pc = "ops" /\ op_index' = op_index + 1
              /\ element.transform[op_index].name \in {"rotate", "skewX", "skewY"})
            => mobject' = mobject]_vars
    /\ [][(shape_pc = "transforms" /\ ~has_position(element))
            => mobject' = mobject]_vars

C13_Witness ==
    /\ Transformed
    /\ has_position(element)
    /\ element.transform = <<Op("matrix", <<1, 1, 0, 1, 1, 2>>), Op("scale", <<2, 3>>)>>
    /\ mobject.points # Untransformed

\* C19 as claimed: the x/y shift is applied after the entries of the
\* transform attribute, so it is added unchanged to the transformed points.
C19_ShiftAfterMatrix ==
    (Transformed /\ has_position(element))
        => LET ops == element.transform
               expected(p) ==
                   flip_point(Add(svg_ops(flip_point(p), ops, Len(ops)),
                                  svg_position(element)))
           IN  mobject.points = map_points(Untransformed, expected, 1)

\* C19 amended: the x/y shift is applied before the entries of the
\* transform attribute, so the matrix and scale entries act on it too: the
\* returned points are the transformed points of the element without x and
\* y, plus the shift carried through the linear parts of all the entries.
C19_ShiftBeforeMatrix ==
    (Transformed /\ has_position(element))
        => LET ops == element.transform
               expected(p) ==
                   flip_point(Add(svg_ops(flip_point(p), ops, Len(ops)),
                                  svg_linear_ops(svg_position(element), ops, Len(ops))))
           IN  mobject.points = map_points(Untransformed, expected, 1)

C19_Witness ==
    /\ Transformed
    /\ has_position(element)
    /\ element.transform = <<Op("matrix", <<0, 1, 0 - 1, 0, 0, 0>>)>>
    /\ get_last_point(mobject.points) = <<0 - 3, 0 - 3>>

\* C14: the style attached to the geometry an element emits (path, rect,
\* circle, ellipse, polygon or polyline) has, for a property the element
\* does not set itself and an ancestor has resolved, the ancestor's value.
C14_StyleInherited ==
    (ShapeReturned /\ element.tag \in ShapeTags /\ mobject.kind # "none")
        => /\ (element.own["fill"] = Unset /\ inherited_style["fill"] # Unset)
                 => mobject.style.fill_color = inherited_style["fill"]
           /\ (element.own["stroke-width"] = Unset
                  /\ inherited_style["stroke-width"] # Unset)
                 => mobject.style.stroke_width = inherited_style["stroke-width"]

-----------------------------------------------------------------------------
(* Further claims about the document walker                                 *)

\* element n has a defs element among its proper ancestors
InsideDefs(d, n) ==
    \E a \in AncestorsOrSelf(d, d[n].parent) : d[a].tag = "defs"

Returns == walk_pc = "svgs" /\ stack # <<>> /\ Len(stack') = Len(stack) - 1

\* C12: the walk of a defs element returns the empty list (nothing is added
\* to its caller's result or to the output), and a finished walk holds the
\* geometry of an element inside a defs subtree only if some use of the
\* document refers to the id of an element of that subtree enclosing it.
C12_DefsExcluded ==
    /\ [][(Returns /\ doc[Top.element].tag = "defs")
            => /\ submobjects' = submobjects
               /\ Len(stack) > 1
                     => stack'[Len(stack')].result = stack[Len(stack) - 1].result]_vars
    /\ [](walk_pc = "done"
            => \A k \in DOMAIN submobjects :
                  InsideDefs(doc, submobjects[k].element)
                      => \E u \in DOMAIN doc, a \in DOMAIN doc :
                            /\ doc[u].tag = "use"
                            /\ a \in AncestorsOrSelf(doc, submobjects[k].element)
                            /\ InsideDefs(doc, a)
                            /\ doc[a].id # ""
                            /\ doc[a].id = use_ref(doc[u].href))

-----------------------------------------------------------------------------
(* register_font (src/manimlib/mobject/svg/text_mobject.py): the context    *)
(* manager around a with body.  font records the argument and which of the  *)
(* two candidate files exist; pango records the calls made to manimpango    *)
(* and the font files it has registered.                                    *)

FontFiles == {"a.ttf", "fonts/b.ttf", "c.otf"}
OtherFonts == {"x.ttf", "y.ttf"}

NoPath == ""

\* possible_paths = [Path(font_file), input_folder / font_file]
possible_paths(name) == <<name, "input/" \o name>>

exists(f, k) == IF k = 1 THEN f.given ELSE f.in_input_folder

file_path_input_folder_first(f) ==
    IF exists(f, 2) THEN possible_paths(f.name)[2]
    ELSE IF exists(f, 1) THEN possible_paths(f.name)[1]
    ELSE NoPath

\* for path in possible_paths: the first candidate that exists
file_path(f) ==
    IF exists(f, 1) THEN possible_paths(f.name)[1]
    ELSE IF exists(f, 2) THEN possible_paths(f.name)[2]
    ELSE NoPath

Call(function, path) == [function |-> function, path |-> path]

InitFont ==
    /\ InitPathVars({<<>>}, 0)
    /\ WalkIdle
    /\ ShapeIdle
    /\ ImageIdle
    /\ RectIdle
    /\ font \in [name : FontFiles, given : BOOLEAN, in_input_folder : BOOLEAN]
    /\ font_pc = "call"
    /\ pango \in [calls : {<<>>}, registered : SUBSET OtherFonts]

FontFrame == UNCHANGED <<font, path_vars, walk_vars, shape_vars, image_vars,
                         rect_vars>>

\* the with statement enters: the search for the file, then
\* assert manimpango.register_font(str(file_path)), whose result is
\* manimpango's; a failed assertion runs the finally clause
register_font ==
    /\ font_pc = "call"
    /\ LET path == file_path(font)
       IN  IF path = NoPath
           THEN /\ font_pc' = "FileNotFoundError"
                /\ UNCHANGED pango
           ELSE \E registered \in BOOLEAN :
                   IF registered
                   THEN /\ pango' = [calls |-> Append(pango.calls,
                                                     Call("register_font", path)),
                                     registered |-> pango.registered \cup {path}]
                        /\ font_pc' = "body"
                   ELSE /\ pango' = [calls |-> pango.calls
                                        \o <<Call("register_font", path),
                                             Call("unregister_font", path)>>,
                                     registered |-> pango.registered \ {path}]
                        /\ font_pc' = "AssertionError"
    /\ FontFrame

\* the with body ends, normally or with an exception thrown into the
\* generator at the yield: finally: manimpango.unregister_font(str(file_path))
register_font_exit ==
    /\ font_pc = "body"
    /\ pango' = [calls |-> Append(pango.calls,
                                  Call("unregister_font", file_path(font))),
                 registered |-> pango.registered \ {file_path(font)}]
    /\ \E raises \in BOOLEAN :
          font_pc' = IF raises THEN "body raised" ELSE "body returned"
    /\ FontFrame

NextFont ==
    \/ register_font
    \/ register_font_exit

SpecFont == InitFont /\ [][NextFont]_vars

\* the file the claim expects: as given if it exists, else under the input
\* folder
FoundFont ==
    IF font.given THEN font.name
    ELSE IF font.in_input_folder THEN "input/" \o font.name
    ELSE NoPath

-----------------------------------------------------------------------------
(* Repetition of a command over excess coordinates: a move followed by one  *)
(* command of any letter but the arc's, with up to MaxRepeat tuples of the  *)
(* size the letter's function takes (H and V: single values, Z: pairs).     *)

MaxRepeat == 2

RepeatLetters ==
    {"M", "L", "H", "V", "C", "S", "Q", "T", "Z",
     "m", "l", "h", "v", "c", "s", "q", "t", "z"}

\* pairs per tuple of the coordinate string
tuple_size(c) ==
    IF upper(c) = "Z" THEN 1 ELSE command_to_function(c).n_points

RepeatCommands(most) ==
    UNION {IF upper(c) \in {"H", "V"}
           THEN {[cmd |-> c, numbers |-> ns] : ns \in [1..k -> HVals]}
           ELSE {Cmd(c, ps) : ps \in [1..(k * tuple_size(c)) -> Pts]} :
              c \in RepeatLetters, k \in 1..most}

RepeatPathStrings(most) ==
    {<<Cmd("M", <<<<1, MaxCoord>>>>), c>> : c \in RepeatCommands(most)}

InitRepeat == InitPathVars(RepeatPathStrings(MaxRepeat), 1) /\ WalkIdle /\ ExtIdle

SpecRepeat == InitRepeat /\ [][NextPath]_vars

Repeats == pc = "handle" /\ pc' = "handle"

\* C16: every repetition step of handle_command consumes the command's
\* arity of tuples, a positive number, so the tuples left strictly decrease
\* and no run ends in the interpreter's recursion error.
C16_RepetitionTerminates ==
    /\ [][Repeats
            => /\ command_to_function(command).n_points > 0
               /\ Len(new_points') = Len(new_points) - command_to_function(command).n_points]_vars
    /\ [](Finished => result.err # "RecursionError")

-----------------------------------------------------------------------------
(* The walker over deeper documents of fewer element kinds: svg elements    *)
(* nested in one another and in defs, with definitions before and after     *)
(* the use elements that refer to them.                                     *)

MaxNested == 4

NestedKinds ==
    {Element("svg", "", "", NoStyle), Element("defs", "", "", NoStyle),
     Element("path", "", "", NoStyle), Element("path", "a", "", NoStyle),
     Element("use", "", "#a", NoStyle)}

RECURSIVE DocumentsFrom(_, _)
DocumentsFrom(kinds, n) ==
    IF n = 0 THEN {<<Element("svg", "", "", NoStyle)>>}
    ELSE LET smaller == DocumentsFrom(kinds, n - 1)
         IN  smaller \cup
             {Append(d, [k EXCEPT !.parent = par]) :
                 <<d, k, par>> \in
                     {t \in smaller \X kinds \X (1..n) :
                         /\ Len(t[1]) = n
                         /\ t[3] \in AncestorsOrSelf(t[1], n)
                         /\ t[1][t[3]].tag \in Containers}}

InitNested ==
    /\ InitPathVars({<<>>}, 0)
    /\ ExtIdle
    /\ doc \in DocumentsFrom(NestedKinds, MaxNested)
    /\ svg_index = 1
    /\ stack = <<>>
    /\ def_map = EmptyDefMap
    /\ submobjects = <<>>
    /\ warnings = <<>>
    /\ walk_pc = "svgs"

SpecNested == InitNested /\ [][NextWalk]_vars

\* C17: the registry changes only when the walk of an element with an id
\* inside a defs subtree completes, and then holds that element under its id
\* (the last one of a repeated id); it never holds an element outside defs;
\* a use is walked into its target exactly when its id is in the registry at
\* that moment; and a use never resolves to a definition that appears later
\* than it in document order.
C17_SinglePassRegistry ==
    /\ [][def_map' # def_map
            => /\ Returns
               /\ InsideDefs(doc, Top.element)
               /\ doc[Top.element].id # ""
               /\ def_map' = [def_map EXCEPT ![doc[Top.element].id] =
                                 [defined |-> TRUE, style |-> Top.style,
                                  element |-> Top.element]]]_vars
    /\ [][(Returns /\ InsideDefs(doc, Top.element) /\ doc[Top.element].id # "")
            => def_map'[doc[Top.element].id].defined]_vars
    /\ [](\A i \in Ids : def_map[i].defined
             => /\ InsideDefs(doc, def_map[i].element)
                /\ doc[def_map[i].element].id = i)
    /\ [][AtUse => (Len(stack') = Len(stack) + 1 <=> def_map[TopRef].defined)]_vars
    /\ [][(AtUse /\ Len(stack') = Len(stack) + 1)
            => def_map[TopRef].element < Top.element]_vars

-----------------------------------------------------------------------------
(* ImageMobject.point_to_rgb (src/manimlib/mobject/types/image_mobject.py). *)
(* The image has pw x ph pixels and the corners UL = (-MaxCoord, MaxCoord)  *)
(* and DR = (MaxCoord, -MaxCoord); a relative position is kept as the       *)
(* fraction num / den; the colour returned is given by the pixel read.      *)

MaxPixels == 3

Corner(c) == IF c = "UL" THEN <<0 - MaxCoord, MaxCoord>> ELSE <<MaxCoord, 0 - MaxCoord>>

Coordinates == (0 - MaxCoord - 1)..(MaxCoord + 1)

\* (value - start) / (end - start)
inverse_interpolate(start, end, value) ==
    [num |-> value - start, den |-> end - start]

\* 0 <= alpha <= 1
in_unit_interval(alpha) ==
    IF alpha.den > 0 THEN 0 <= alpha.num /\ alpha.num <= alpha.den
    ELSE alpha.den <= alpha.num /\ alpha.num <= 0

\* if not (0 <= x_alpha <= 1) and (0 <= y_alpha <= 1): raise
rejects(x_alpha, y_alpha) ==
    ~in_unit_interval(x_alpha) /\ in_unit_interval(y_alpha)

\* int(n * alpha): the fraction rounded towards zero
int_of(n, alpha) ==
    LET num == IF alpha.den > 0 THEN n * alpha.num ELSE 0 - n * alpha.num
        den == IF alpha.den > 0 THEN alpha.den ELSE 0 - alpha.den
    IN  IF num >= 0 THEN num \div den ELSE 0 - ((0 - num) \div den)

\* self.image.getpixel((i, j)): a negative index counts from the far edge,
\* an index outside the image raises IndexError
getpixel(img, i, j) ==
    LET x == IF i < 0 THEN img.pw + i ELSE i
        y == IF j < 0 THEN img.ph + j ELSE j
    IN  IF x < 0 \/ x >= img.pw \/ y < 0 \/ y >= img.ph
        THEN [status |-> "error", err |-> "IndexError", pixel |-> <<>>]
        ELSE [status |-> "ok", err |-> "", pixel |-> <<x, y>>]

InitImage ==
    /\ InitPathVars({<<>>}, 0)
    /\ WalkIdle
    /\ ShapeIdle
    /\ FontIdle
    /\ RectIdle
    /\ image \in [pw : 1..MaxPixels, ph : 1..MaxPixels]
    /\ sample \in Coordinates \X Coordinates
    /\ rgb = [status |-> "none"]

point_to_rgb ==
    /\ rgb.status = "none"
    /\ LET x_alpha == inverse_interpolate(Corner("UL")[1], Corner("DR")[1], sample[1])
           y_alpha == inverse_interpolate(Corner("UL")[2], Corner("DR")[2], sample[2])
       IN  rgb' = IF rejects(x_alpha, y_alpha)
                  THEN [status |-> "error",
                        err |-> "Cannot sample color from outside an image",
                        pixel |-> <<>>]
                  ELSE getpixel(image, int_of(image.pw - 1, x_alpha),
                                int_of(image.ph - 1, y_alpha))
    /\ UNCHANGED <<image, sample, path_vars, walk_vars, shape_vars, font_vars,
                   rect_vars>>

NextImage == point_to_rgb

SpecImage == InitImage /\ [][NextImage]_vars

\* the point lies in the image rectangle
InsideImage ==
    /\ Corner("UL")[1] <= sample[1] /\ sample[1] <= Corner("DR")[1]
    /\ Corner("DR")[2] <= sample[2] /\ sample[2] <= Corner("UL")[2]

\* C20: a call with a point outside the image rectangle, horizontally or
\* vertically, raises the "Cannot sample color from outside an image" error,
\* and a colour is returned only for points inside the rectangle.
C20_OutsideRejected ==
    rgb.status # "none"
        => /\ ~InsideImage
                 => /\ rgb.status = "error"
                    /\ rgb.err = "Cannot sample color from outside an image"
           /\ rgb.status = "ok" => InsideImage

-----------------------------------------------------------------------------
(* BackgroundRectangle (src/manimlib/mobject/shape_matchers.py): its style  *)
(* data and the set_style_data calls made on it.  Opacities and widths are  *)
(* in hundredths; an argument is None when left out and Some(v) when given. *)

MaxCalls == 2

None == <<>>
Some(v) == <<v>>
Given(values) == {Some(v) : v \in values}
BLACK == "#000000"
Colors == {BLACK, "#333333", "#FFFF00"}
StrokeWidths == {0, 400}
Opacities == {0, 75, 100}

StyleArguments ==
    [stroke_color : Given(Colors) \cup {None},
     stroke_width : Given(StrokeWidths) \cup {None},
     fill_color : Given(Colors) \cup {None},
     fill_opacity : Given(Opacities) \cup {None},
     family : BOOLEAN]

\* VMobject.set_style_data: every argument that is given replaces the
\* stored value
VMobject_set_style_data(style, args) ==
    [constructed |-> TRUE,
     stroke_color |-> IF args.stroke_color = None THEN style.stroke_color
                      ELSE args.stroke_color[1],
     stroke_width |-> IF args.stroke_width = None THEN style.stroke_width
                      ELSE args.stroke_width[1],
     fill_color |-> IF args.fill_color = None THEN style.fill_color
                    ELSE args.fill_color[1],
     fill_opacity |-> IF args.fill_opacity = None THEN style.fill_opacity
                      ELSE args.fill_opacity[1]]

passed_on_unchanged(args) == args

\* the arguments BackgroundRectangle.set_style_data hands to
\* VMobject.set_style_data
passed_on(args) ==
    [stroke_color |-> Some(BLACK), stroke_width |-> Some(0),
     fill_color |-> Some(BLACK), fill_opacity |-> args.fill_opacity,
     family |-> TRUE]

\* the rectangle as built: the colour argument (the background colour by
\* default) and CONFIG's stroke width and fill opacity unless overridden
InitRect ==
    /\ InitPathVars({<<>>}, 0)
    /\ WalkIdle
    /\ ShapeIdle
    /\ FontIdle
    /\ ImageIdle
    /\ \E color \in Colors, width \in StrokeWidths, opacity \in Opacities :
          rect_style = [constructed |-> TRUE, stroke_color |-> color,
                        stroke_width |-> width, fill_color |-> color,
                        fill_opacity |-> opacity]
    /\ rect_call = NoCall
    /\ rect_calls_left = MaxCalls

set_style_data(args) ==
    /\ rect_calls_left > 0
    /\ rect_style' = VMobject_set_style_data(rect_style, passed_on(args))
    /\ rect_call' = [made |-> TRUE, args |-> args, before |-> rect_style]
    /\ rect_calls_left' = rect_calls_left - 1
    /\ UNCHANGED <<path_vars, walk_vars, shape_vars, font_vars, image_vars>>

NextRect == \E args \in StyleArguments : set_style_data(args)

SpecRect == InitRect /\ [][NextRect]_vars

\* C21: after every set_style_data call, whatever its arguments, the stroke
\* colour is BLACK, the stroke width 0 and the fill colour BLACK; the fill
\* opacity is the one passed, or the previous one when none is passed.
C21_StyleUnchangeable ==
    rect_call.made
        => /\ rect_style.stroke_color = BLACK
           /\ rect_style.stroke_width = 0
           /\ rect_style.fill_color = BLACK
           /\ rect_style.fill_opacity
                  = IF rect_call.args.fill_opacity = None
                    THEN rect_call.before.fill_opacity
                    ELSE rect_call.args.fill_opacity[1]

C21_Witness ==
    /\ rect_call.made
    /\ rect_calls_left = 0
    /\ rect_call.args.stroke_color = Some("#FFFF00")
    /\ rect_call.args.stroke_width = Some(400)
    /\ rect_call.args.fill_color = Some("#333333")
    /\ rect_call.args.fill_opacity = Some(100)
    /\ rect_call.before.fill_opacity = 0
    /\ rect_style.fill_opacity = 100

-----------------------------------------------------------------------------
(* The walk as a whole.                                                     *)

\* C22: the walk of every finite document comes to its end: it never runs
\* out of call depth (RecursionError), also when a registered definition
\* holds a use that refers to itself or to a definition that refers back
\* to it.
C22_WalkTerminates == walk_pc # "raised"

\* the number of submobjects the parse took from element n
contributions(n) ==
    Cardinality({k \in 1..Len(submobjects) : submobjects[k].element = n})

\* C23: when the parse is over, every shape element outside defs has
\* contributed its geometry exactly once, also in a document with an svg
\* element nested in another.
C23_ContributesOnce ==
    walk_pc = "done"
        => \A n \in 1..Len(doc) :
              (doc[n].tag = "path" /\ OutsideDefs(doc, n))
                  => contributions(n) = 1

====
